---- MODULE Spec2Model ----
(***************************************************************************)
(* The IP reconciler of whereabouts (pkg/reconciler/iploop.go): one pass   *)
(* captures the live pods, scans every IP pool for reservations whose pod  *)
(* is gone, and commits each affected pool once, while pods and other      *)
(* writers of the pool store keep running.                                 *)
(***************************************************************************)
EXTENDS Integers, Sequences, FiniteSets, TLC

\* ------------------------------------------------------------------ bounds
\* reservations the store holds at a time, over all pools
MaxRes == 2
\* steps of the other actors in a run
MaxEnvSteps == 2
\* reconciliation passes in a run
MaxPasses == 2
\* calls of ReconcileIPPools on one looper
MaxCalls == 2
\* longest reservation list of a looper that is given to ReconcileIPPools
ScenMaxLen == 3

\* ------------------------------------------------------------- data model
PoolNames == <<"pool-1", "pool-2">>
Pools == {PoolNames[i] : i \in 1..Len(PoolNames)}
Addrs == 1..MaxRes

PodNames == <<"a", "b">>
Namespace == "ns"
AllPods == [i \in 1..Len(PodNames) |-> [ns |-> Namespace, name |-> PodNames[i]]]
Pods == {AllPods[i] : i \in 1..Len(PodNames)}

\* fmt.Sprintf("%s/%s", pod.GetNamespace(), pod.GetName())
PodRefOf(pod) == pod.ns \o "/" \o pod.name

\* net.IP.String() of the address 10.0.0.<ip>
IPString(ip) == "10.0.0." \o ToString(ip)

OwnerRefs == {""} \cup {PodRefOf(p) : p \in Pods}
Reservations == [IP : Addrs, PodRef : OwnerRefs]

\* the store keeps one reservation per address of a pool
UniqueIPs(list) ==
    \A i, j \in 1..Len(list) : (i # j) => list[i].IP # list[j].IP

\* the lists of a fresh range: the addresses were taken lowest first
InitLists ==
    {l \in UNION {[1..n -> Reservations] : n \in 0..MaxRes} :
        \A i \in 1..Len(l) : l[i].IP = i}

RECURSIVE SumLen(_, _)
SumLen(st, ps) ==
    IF ps = {} THEN 0
    ELSE LET p == CHOOSE q \in ps : TRUE
         IN  Len(st[p].allocations) + SumLen(st, ps \ {p})

\* the number of reservations the store holds
TotalRes(st) == SumLen(st, Pools)

\* the lowest address of the range that no reservation of the list holds
LowestFree(list) ==
    CHOOSE ip \in Addrs :
        /\ \A i \in 1..Len(list) : list[i].IP # ip
        /\ \A other \in Addrs :
              (\A i \in 1..Len(list) : list[i].IP # other) => ip <= other

VARIABLES
    pods,               \* the pods the control plane lists as existing
    store,              \* pool -> [allocations, version]
    pc,                 \* position of the reconciler: new, detect, reclaim, done,
                        \* failed (NewReconcileLooper returned an error)
    livePodRefs,        \* ReconcileLooper.livePodRefs
    ipPools,            \* the pools as read by findOrphanedIPsPerPool
    orphanedIPs,        \* ReconcileLooper.orphanedIPs
    loopIdx,            \* index of the next orphan group in ReconcileIPPools
    totalCleanedUpIps,  \* the accumulator of ReconcileIPPools
    retIPs,             \* the list ReconcileIPPools returned
    retErr,             \* the error ReconcileIPPools returned
    updates,            \* the Pool.Update calls of the current pass
    prev,               \* what the previous pass returned, and the pods of
                        \* its live set that were gone when it had ended
    passes,             \* passes started
    envSteps,           \* steps of the other actors
    quietPasses,        \* passes started since the last step of another actor
    touched,            \* pools another actor wrote since the pass read them
    fresh,              \* reservations allocated since the pass listed the pods
    ctxDone,            \* the looper's ctx is cancelled
    calls               \* calls of ReconcileIPPools on the current looper

vars == <<pods, store, pc, livePodRefs, ipPools, orphanedIPs, loopIdx,
          totalCleanedUpIps, retIPs, retErr, updates, prev, passes, envSteps,
          quietPasses, touched, fresh, ctxDone, calls>>

looperVars == <<pc, livePodRefs, ipPools, orphanedIPs, loopIdx,
                totalCleanedUpIps, retIPs, retErr, updates, prev, passes,
                ctxDone, calls>>

\* ------------------------------------------------------ the store adapters
\* kubernetes.Client.ListPods
ListPods(existing) == SelectSeq(AllPods, LAMBDA p : p \in existing)

\* kubernetes.Client.ListIPPools: every pool with its list and its version
ListIPPools(st) ==
    [i \in 1..Len(PoolNames) |->
        [name |-> PoolNames[i],
         allocations |-> st[PoolNames[i]].allocations,
         version |-> st[PoolNames[i]].version]]

\* storage.IPPool.Allocations
Allocations(pool) == pool.allocations

\* storage.IPPool.Update: the write is rejected when the pool changed since
\* it was read
PoolUpdate(st, pool, reservations) ==
    IF st[pool.name].version = pool.version
    THEN [err |-> "nil",
          store |-> [st EXCEPT ![pool.name] =
                        [allocations |-> reservations,
                         version |-> pool.version + 1]]]
    ELSE [err |-> "conflict", store |-> st]

RemoveAt(list, i) ==
    [k \in 1..(Len(list) - 1) |-> IF k < i THEN list[k] ELSE list[k + 1]]

matchByPodRefAnyFirst(reservations, podRef) ==
    IF Len(reservations) > 0 THEN 0 ELSE -1

\* matchByPodRef: index (from 0) of the first reservation of podRef, or -1
matchByPodRef(reservations, podRef) ==
    LET hits == {i \in 1..Len(reservations) : reservations[i].PodRef = podRef}
    IN  IF hits = {} THEN -1
        ELSE (CHOOSE i \in hits : \A j \in hits : i <= j) - 1

\* allocate.IterateForDeallocation, called with matchByPodRef as its matching
\* function
IterateForDeallocation(reservelist, podRef) ==
    LET foundidx == matchByPodRef(reservelist, podRef)
    IN  IF foundidx < 0
        THEN [list |-> reservelist, err |-> "notfound"]
        ELSE [list |-> RemoveAt(reservelist, foundidx + 1), err |-> "nil"]

\* ---------------------------------------------------------- the reconciler
\* getPodRefs
getPodRefs(existing) ==
    LET listed == ListPods(existing)
    IN  [i \in 1..Len(listed) |-> PodRefOf(listed[i])]

isPodAliveFirstOnly(live, podRef) ==
    Len(live) > 0 /\ podRef = live[1]

\* ReconcileLooper.isPodAlive
isPodAlive(live, podRef) ==
    \E i \in 1..Len(live) : podRef = live[i]

IsOrphanedNoAnomalyCheck(live, allocation) ==
    ~isPodAlive(live, allocation.PodRef)

\* the body of the inner loop of findOrphanedIPsPerPool
IsOrphaned(live, allocation) ==
    /\ allocation.PodRef # ""
    /\ ~isPodAlive(live, allocation.PodRef)

KeepEveryGroup(orphanIP) == TRUE

\* the test that retains an orphan group
HasOrphans(orphanIP) == Len(orphanIP.Allocations) > 0

\* the orphan group findOrphanedIPsPerPool builds for one pool
OrphanGroup(live, pool) ==
    [Pool |-> pool,
     Allocations |-> SelectSeq(Allocations(pool),
                               LAMBDA a : IsOrphaned(live, a))]

RECURSIVE OrphanGroupsFrom(_, _, _)
OrphanGroupsFrom(live, pools, i) ==
    IF i > Len(pools) THEN << >>
    ELSE LET orphanIP == OrphanGroup(live, pools[i])
         IN  (IF HasOrphans(orphanIP) THEN <<orphanIP>> ELSE << >>)
             \o OrphanGroupsFrom(live, pools, i + 1)

\* findOrphanedIPsPerPool: the value of rl.orphanedIPs
findOrphanedIPsPerPool(live, pools) == OrphanGroupsFrom(live, pools, 1)

RECURSIVE DistinctFrom(_, _)
DistinctFrom(list, i) ==
    IF i > Len(list) THEN << >>
    ELSE (IF \E k \in 1..(i - 1) : list[k] = list[i] THEN << >> ELSE <<list[i]>>)
         \o DistinctFrom(list, i + 1)

findOutDistinctPodRefs(orphanedIP) ==
    DistinctFrom([i \in 1..Len(orphanedIP.Allocations) |->
                     orphanedIP.Allocations[i].PodRef], 1)

findOutAddressesToDeallocate(orphanedIP) ==
    [i \in 1..Len(orphanedIP.Allocations) |->
        IPString(orphanedIP.Allocations[i].IP)]

\* findOutPodRefsToDeallocateIPsFrom
findOutPodRefsToDeallocateIPsFrom(orphanedIP) ==
    [i \in 1..Len(orphanedIP.Allocations) |-> orphanedIP.Allocations[i].PodRef]

RECURSIVE DeallocateFrom(_, _, _)
DeallocateFrom(current, podRefs, i) ==
    IF i > Len(podRefs) THEN [list |-> current, err |-> "nil"]
    ELSE LET r == IterateForDeallocation(current, podRefs[i])
         IN  IF r.err # "nil" THEN r
             ELSE DeallocateFrom(r.list, podRefs, i + 1)

RECURSIVE DeallocateEachFromOriginal(_, _, _)
DeallocateEachFromOriginal(original, podRefs, i) ==
    IF i > Len(podRefs) THEN [list |-> original, err |-> "nil"]
    ELSE LET r == IterateForDeallocation(original, podRefs[i])
         IN  IF r.err # "nil" \/ i = Len(podRefs) THEN r
             ELSE DeallocateEachFromOriginal(original, podRefs, i + 1)

DeallocateAllNotAccumulating(reservations, podRefs) ==
    DeallocateEachFromOriginal(reservations, podRefs, 1)

DeallocateAllAppending(reservations, podRefs) ==
    LET r == DeallocateFrom(reservations, podRefs, 1)
    IN  [list |-> reservations \o r.list, err |-> r.err]

RECURSIVE DeallocateSkippingMissing(_, _, _)
DeallocateSkippingMissing(current, podRefs, i) ==
    IF i > Len(podRefs) THEN [list |-> current, err |-> "nil"]
    ELSE LET r == IterateForDeallocation(current, podRefs[i])
         IN  DeallocateSkippingMissing(r.list, podRefs, i + 1)

DeallocateAllIgnoringNotFound(reservations, podRefs) ==
    DeallocateSkippingMissing(reservations, podRefs, 1)

\* the inner loop of ReconcileIPPools over podRefsToDeallocate
DeallocateAll(reservations, podRefs) == DeallocateFrom(reservations, podRefs, 1)

computeKeptIPs(oldIPReservations, newIPReservations) ==
    LET ledger == {IPString(newIPReservations[i].IP) :
                      i \in 1..Len(newIPReservations)}
    IN  SelectSeq(oldIPReservations, LAMBDA r : IPString(r.IP) \in ledger)

\* computeCleanedUpIPs
computeCleanedUpIPs(oldIPReservations, newIPReservations) ==
    LET ledger == {IPString(newIPReservations[i].IP) :
                      i \in 1..Len(newIPReservations)}
    IN  SelectSeq(oldIPReservations, LAMBDA r : IPString(r.IP) \notin ledger)

ListErrorIgnored(listErr) == FALSE

\* the test of the error a listing returned in NewReconcileLooper
ListFailed(listErr) == listErr # "nil"

ClearedOrphanedIPs(groups) == << >>

\* rl.orphanedIPs as the next call of ReconcileIPPools on the looper finds it
RetainedOrphanedIPs(groups) == groups

UpdateErrorIgnored(updateErr) == FALSE

\* the test of the error Pool.Update returned in ReconcileIPPools
UpdateFailed(updateErr) == updateErr # "nil"

\* ------------------------------------------------------------------- Init
Init ==
    /\ pods \in SUBSET Pods
    /\ store \in [Pools -> [allocations : InitLists, version : {0}]]
    /\ TotalRes(store) <= MaxRes
    /\ pc = "new"
    /\ livePodRefs = << >>
    /\ ipPools = << >>
    /\ orphanedIPs = << >>
    /\ loopIdx = 1
    /\ totalCleanedUpIps = << >>
    /\ retIPs = << >>
    /\ retErr = "nil"
    /\ updates = << >>
    /\ prev = [ran |-> FALSE, err |-> "nil", ret |-> << >>, gone |-> {}]
    /\ passes = 0
    /\ envSteps = 0
    /\ quietPasses = 0
    /\ touched = {}
    /\ fresh = {}
    /\ ctxDone = FALSE
    /\ calls = 0

\* ------------------------------------------------ the reconciler's actions
\* NewReconcileLooper, up to getPodRefs: the live set is captured
GetPodRefs ==
    /\ pc \in {"new", "done", "failed"}
    /\ passes < MaxPasses
    /\ passes' = passes + 1
    /\ quietPasses' = quietPasses + 1
    /\ prev' = [ran |-> pc = "done", err |-> retErr, ret |-> retIPs,
                gone |-> {livePodRefs[i] : i \in 1..Len(livePodRefs)}
                            \ {PodRefOf(p) : p \in pods}]
    /\ livePodRefs' = getPodRefs(pods)
    /\ ipPools' = << >>
    /\ orphanedIPs' = << >>
    /\ loopIdx' = 1
    /\ totalCleanedUpIps' = << >>
    /\ retIPs' = << >>
    /\ retErr' = "nil"
    /\ updates' = << >>
    /\ pc' = "detect"
    /\ touched' = {}
    /\ fresh' = {}
    /\ ctxDone' = FALSE
    /\ calls' = 0
    /\ UNCHANGED <<pods, store, envSteps>>

\* NewReconcileLooper, the call of findOrphanedIPsPerPool: the pools are read
FindOrphanedIPsPerPool ==
    /\ pc = "detect"
    /\ ipPools' = ListIPPools(store)
    /\ orphanedIPs' = findOrphanedIPsPerPool(livePodRefs, ipPools')
    /\ pc' = "reclaim"
    /\ calls' = 1
    /\ touched' = {}
    /\ UNCHANGED <<pods, store, livePodRefs, loopIdx, totalCleanedUpIps,
                   retIPs, retErr, updates, prev, passes, envSteps,
                   quietPasses, fresh, ctxDone>>

\* ReconcileIPPools: one iteration of the loop over rl.orphanedIPs
ReconcilePool ==
    /\ pc = "reclaim"
    /\ loopIdx <= Len(orphanedIPs)
    /\ LET orphanedIP == orphanedIPs[loopIdx]
           originalIPReservations == Allocations(orphanedIP.Pool)
           podRefsToDeallocate == findOutPodRefsToDeallocateIPsFrom(orphanedIP)
           dealloc == DeallocateAll(Allocations(orphanedIP.Pool),
                                    podRefsToDeallocate)
           currentIPReservations == dealloc.list
           upd == PoolUpdate(store, orphanedIP.Pool, currentIPReservations)
       IN  IF dealloc.err # "nil"
           THEN /\ retErr' = dealloc.err
                /\ retIPs' = << >>
                /\ pc' = "done"
                /\ UNCHANGED <<store, updates, totalCleanedUpIps, loopIdx>>
           ELSE /\ store' = upd.store
                /\ updates' = Append(updates,
                       [pool |-> orphanedIP.Pool.name,
                        original |-> originalIPReservations,
                        list |-> currentIPReservations,
                        err |-> upd.err,
                        livePods |-> {PodRefOf(p) : p \in pods},
                        ctxDone |-> ctxDone,
                        call |-> calls])
                /\ IF UpdateFailed(upd.err)
                   THEN /\ retErr' = upd.err
                        /\ retIPs' = << >>
                        /\ pc' = "done"
                        /\ UNCHANGED <<totalCleanedUpIps, loopIdx>>
                   ELSE /\ totalCleanedUpIps' = totalCleanedUpIps \o
                              computeCleanedUpIPs(originalIPReservations,
                                                  currentIPReservations)
                        /\ loopIdx' = loopIdx + 1
                        /\ UNCHANGED <<retErr, retIPs, pc>>
    /\ UNCHANGED <<pods, livePodRefs, ipPools, orphanedIPs, prev, passes,
                   envSteps, quietPasses, touched, fresh, ctxDone, calls>>

\* ReconcileIPPools: the loop is over, the report is returned
ReconcileReturn ==
    /\ pc = "reclaim"
    /\ loopIdx > Len(orphanedIPs)
    /\ retIPs' = totalCleanedUpIps
    /\ retErr' = "nil"
    /\ pc' = "done"
    /\ UNCHANGED <<pods, store, livePodRefs, ipPools, orphanedIPs, loopIdx,
                   totalCleanedUpIps, updates, prev, passes, envSteps,
                   quietPasses, touched, fresh, ctxDone, calls>>

\* ------------------------------------------------- the other actors' steps
EnvStep ==
    /\ envSteps < MaxEnvSteps
    /\ envSteps' = envSteps + 1
    /\ quietPasses' = 0

\* a pod is created
PodCreate ==
    /\ EnvStep
    /\ \E p \in Pods \ pods : pods' = pods \cup {p}
    /\ UNCHANGED <<store, touched, fresh>>
    /\ UNCHANGED looperVars

\* a pod goes away without releasing its addresses
PodDelete ==
    /\ EnvStep
    /\ \E p \in pods : pods' = pods \ {p}
    /\ UNCHANGED <<store, touched, fresh>>
    /\ UNCHANGED looperVars

\* an allocation request of an existing pod takes the lowest free address of
\* a pool
Allocate ==
    /\ EnvStep
    /\ TotalRes(store) < MaxRes
    /\ \E pool \in Pools, p \in pods :
          LET reservation == [IP |-> LowestFree(store[pool].allocations),
                              PodRef |-> PodRefOf(p)]
          IN  /\ store' = [store EXCEPT ![pool] =
                    [allocations |-> Append(@.allocations, reservation),
                     version |-> @.version + 1]]
              /\ touched' = IF pc = "reclaim" THEN touched \cup {pool}
                            ELSE touched
              /\ fresh' = IF pc \in {"detect", "reclaim"}
                          THEN fresh \cup {<<pool, reservation>>}
                          ELSE fresh
    /\ UNCHANGED pods
    /\ UNCHANGED looperVars

\* the teardown of a pod releases one of its addresses
Deallocate ==
    /\ EnvStep
    /\ \E pool \in Pools, p \in Pods :
          LET r == IterateForDeallocation(store[pool].allocations,
                                          PodRefOf(p))
          IN  /\ r.err = "nil"
              /\ store' = [store EXCEPT ![pool] =
                    [allocations |-> r.list, version |-> @.version + 1]]
              /\ touched' = IF pc = "reclaim" THEN touched \cup {pool}
                            ELSE touched
    /\ UNCHANGED <<pods, fresh>>
    /\ UNCHANGED looperVars

Next ==
    \/ GetPodRefs
    \/ FindOrphanedIPsPerPool
    \/ ReconcilePool
    \/ ReconcileReturn
    \/ PodCreate
    \/ PodDelete
    \/ Allocate
    \/ Deallocate

Spec == Init /\ [][Next]_vars

\* ------------------------------------------- further steps of the driver
\* NewReconcileLooper when getPodRefs returns an error: no looper is returned
ListPodsFails ==
    /\ pc \in {"new", "done", "failed"}
    /\ passes < MaxPasses
    /\ passes' = passes + 1
    /\ quietPasses' = quietPasses + 1
    /\ prev' = [ran |-> pc = "done", err |-> retErr, ret |-> retIPs,
                gone |-> {}]
    /\ retErr' = "listpods"
    /\ pc' = IF ListFailed(retErr') THEN "failed" ELSE "detect"
    /\ livePodRefs' = << >>
    /\ ipPools' = << >>
    /\ orphanedIPs' = << >>
    /\ loopIdx' = 1
    /\ totalCleanedUpIps' = << >>
    /\ retIPs' = << >>
    /\ updates' = << >>
    /\ touched' = {}
    /\ fresh' = {}
    /\ ctxDone' = FALSE
    /\ calls' = 0
    /\ UNCHANGED <<pods, store, envSteps>>

\* NewReconcileLooper when findOrphanedIPsPerPool returns an error: the
\* looper under construction is dropped
ListIPPoolsFails ==
    /\ pc = "detect"
    /\ retErr' = "listpools"
    /\ IF ListFailed(retErr')
       THEN /\ pc' = "failed"
            /\ livePodRefs' = << >>
            /\ calls' = 0
       ELSE /\ pc' = "reclaim"
            /\ livePodRefs' = livePodRefs
            /\ calls' = 1
    /\ ipPools' = << >>
    /\ orphanedIPs' = << >>
    /\ UNCHANGED <<pods, store, loopIdx, totalCleanedUpIps, retIPs, updates,
                   prev, passes, envSteps, quietPasses, touched, fresh,
                   ctxDone>>

\* rl.ctx is cancelled while ReconcileIPPools runs
Cancel ==
    /\ pc = "reclaim"
    /\ ~ctxDone
    /\ ctxDone' = TRUE
    /\ UNCHANGED <<pods, store, pc, livePodRefs, ipPools, orphanedIPs,
                   loopIdx, totalCleanedUpIps, retIPs, retErr, updates, prev,
                   passes, envSteps, quietPasses, touched, fresh, calls>>

\* ReconcileIPPools is called once more on the looper it has returned from
ReconcileAgain ==
    /\ pc = "done"
    /\ calls >= 1
    /\ calls < MaxCalls
    /\ calls' = calls + 1
    /\ orphanedIPs' = RetainedOrphanedIPs(orphanedIPs)
    /\ prev' = [prev EXCEPT !.ran = TRUE, !.err = retErr, !.ret = retIPs]
    /\ loopIdx' = 1
    /\ totalCleanedUpIps' = << >>
    /\ retIPs' = << >>
    /\ retErr' = "nil"
    /\ pc' = "reclaim"
    /\ UNCHANGED <<pods, store, livePodRefs, ipPools, updates, passes,
                   envSteps, quietPasses, touched, fresh, ctxDone>>

NextDriver ==
    \/ GetPodRefs
    \/ ListPodsFails
    \/ FindOrphanedIPsPerPool
    \/ ListIPPoolsFails
    \/ ReconcilePool
    \/ ReconcileReturn
    \/ Cancel
    \/ ReconcileAgain

\* the driver alone: no other actor takes a step
SpecDriver == Init /\ [][NextDriver]_vars

\* -------------------------------------- ReconcileIPPools over its receivers
ScenPodNames == <<"podA", "podB", "podC">>
ScenRefs == [i \in 1..Len(ScenPodNames) |->
                PodRefOf([ns |-> Namespace, name |-> ScenPodNames[i]])]
ScenOwners == {""} \cup {ScenRefs[i] : i \in 1..Len(ScenRefs)}
ScenAddrs == 1..ScenMaxLen

\* reservation lists of distinct addresses, in the order of allocation
ScenLists ==
    {l \in UNION {[1..n -> [IP : ScenAddrs, PodRef : ScenOwners]] :
                      n \in 0..ScenMaxLen} :
        \A i, j \in 1..Len(l) : i < j => l[i].IP < l[j].IP}

\* the live sets getPodRefs can return, in the order the pods are listed
ScenLive ==
    {SelectSeq(ScenRefs, LAMBDA r : r \in S) :
        S \in SUBSET {ScenRefs[i] : i \in 1..Len(ScenRefs)}}

\* orphan records whose owner the pool's list need not hold
ScenExtras ==
    {<< >>} \cup {<<[IP |-> 0, PodRef |-> ScenRefs[i]]>> : i \in 1..Len(ScenRefs)}

\* the value of rl.orphanedIPs: what the detect finds in the first pool,
\* followed by the extra records
ScenGroups(live, pools, extra) ==
    LET orphanIP == [Pool |-> pools[1],
                     Allocations |->
                         OrphanGroup(live, pools[1]).Allocations \o extra]
    IN  IF HasOrphans(orphanIP) THEN <<orphanIP>> ELSE << >>

\* a looper as ReconcileIPPools receives it
InitReclaim ==
    /\ pods = {}
    /\ \E l \in ScenLists :
          store = [name \in Pools |->
                      [allocations |-> IF name = PoolNames[1] THEN l ELSE << >>,
                       version |-> 0]]
    /\ livePodRefs \in ScenLive
    /\ ipPools = ListIPPools(store)
    /\ \E extra \in ScenExtras :
          orphanedIPs = ScenGroups(livePodRefs, ipPools, extra)
    /\ pc = "reclaim"
    /\ loopIdx = 1
    /\ totalCleanedUpIps = << >>
    /\ retIPs = << >>
    /\ retErr = "nil"
    /\ updates = << >>
    /\ prev = [ran |-> FALSE, err |-> "nil", ret |-> << >>, gone |-> {}]
    /\ passes = 1
    /\ envSteps = 0
    /\ quietPasses = 1
    /\ touched = {}
    /\ fresh = {}
    /\ ctxDone = FALSE
    /\ calls = 1

NextReclaim ==
    \/ ReconcilePool
    \/ ReconcileReturn

SpecReclaim == InitReclaim /\ [][NextReclaim]_vars

\* ------------------------------------------------------------ the claims
\* the live set the pass captured, as a set
LiveSet == {livePodRefs[i] : i \in 1..Len(livePodRefs)}

Elems(list) == {list[i] : i \in 1..Len(list)}

\* the list of a pool as the detect phase read it
ReadList(name) ==
    LET i == CHOOSE k \in 1..Len(ipPools) : ipPools[k].name = name
    IN  ipPools[i].allocations

PoolsRead == ipPools # << >>

\* a reservation the claims call orphaned: an owner, and not a live one
Dead(r) == r.PodRef # "" /\ r.PodRef \notin LiveSet

\* the Update calls of the pass for one pool
UpdatesOf(name) == {k \in 1..Len(updates) : updates[k].pool = name}

\* C1: every reservation whose PodRef is in the live set captured at the
\* start of the pass is, with the same address and owner, in every list that
\* the pass hands to Pool.Update, and is neither in the removal report being
\* accumulated nor in the one returned.
C1_LiveReservationsKept ==
    /\ \A k \in 1..Len(updates) :
          \A r \in Elems(ReadList(updates[k].pool)) :
              r.PodRef \in LiveSet => r \in Elems(updates[k].list)
    /\ \A r \in Elems(totalCleanedUpIps) \cup Elems(retIPs) :
          r.PodRef \notin LiveSet

\* a pool holding a live pod's reservation next to an orphan was committed
C1_Witness ==
    \E k \in 1..Len(updates) :
        /\ updates[k].err = "nil"
        /\ \E r \in Elems(ReadList(updates[k].pool)) : r.PodRef \in LiveSet
        /\ Len(updates[k].list) < Len(ReadList(updates[k].pool))

\* C2: a reservation with an empty PodRef is in no orphan group, in no
\* removal report, and in every list handed to Pool.Update for its pool,
\* whatever the live set is.
C2_EmptyOwnerNeverOrphaned ==
    /\ \A g \in 1..Len(orphanedIPs) :
          \A r \in Elems(orphanedIPs[g].Allocations) : r.PodRef # ""
    /\ \A r \in Elems(totalCleanedUpIps) \cup Elems(retIPs) : r.PodRef # ""
    /\ \A k \in 1..Len(updates) :
          \A r \in Elems(ReadList(updates[k].pool)) :
              r.PodRef = "" => r \in Elems(updates[k].list)

\* with an empty live set, a pool holding an unowned reservation next to an
\* orphan was committed and the pass returned
C2_Witness ==
    /\ pc = "done"
    /\ retErr = "nil"
    /\ livePodRefs = << >>
    /\ \E k \in 1..Len(updates) :
          /\ updates[k].err = "nil"
          /\ \E r \in Elems(ReadList(updates[k].pool)) : r.PodRef = ""
          /\ Len(updates[k].list) < Len(ReadList(updates[k].pool))

\* the list the pass committed for a pool; the list as read when the pass
\* committed nothing for it
Committed(name) ==
    IF \E k \in UpdatesOf(name) : updates[k].err = "nil"
    THEN updates[CHOOSE k \in UpdatesOf(name) : updates[k].err = "nil"].list
    ELSE ReadList(name)

\* C3: when a pass has returned without error, the reservations it removed
\* from each pool (those of the list as read that the committed list lacks)
\* are exactly the reservations of that pool whose PodRef is neither empty
\* nor in the live set, and the committed list holds nothing else than
\* reservations of the list as read.
C3_ExactSetDifference ==
    (pc = "done" /\ retErr = "nil") =>
        \A name \in Pools :
            /\ Elems(Committed(name)) \subseteq Elems(ReadList(name))
            /\ Elems(ReadList(name)) \ Elems(Committed(name))
                   = {r \in Elems(ReadList(name)) : Dead(r)}

\* a pass returned without error after committing a pool in which one dead
\* owner held two reservations
C3_Witness ==
    /\ pc = "done"
    /\ retErr = "nil"
    /\ \E k \in 1..Len(updates) :
          /\ updates[k].err = "nil"
          /\ \E r1, r2 \in Elems(ReadList(updates[k].pool)) :
                r1 # r2 /\ r1.PodRef = r2.PodRef /\ Dead(r1)

\* the step is a Pool.Update call of the pass for the pool
UpdateIssuedOn(name) ==
    /\ Len(updates') = Len(updates) + 1
    /\ updates'[Len(updates')].pool = name

\* C4: a Pool.Update for a pool that another writer changed after the detect
\* phase read it leaves the whole store as that writer left it, and the step
\* ends ReconcileIPPools with an error and no report.
C4_ConflictNeverClobbers ==
    [][\A name \in touched :
          UpdateIssuedOn(name) =>
              /\ store' = store
              /\ pc' = "done"
              /\ retErr' # "nil"
              /\ retIPs' = << >>]_vars

\* the pass ended on the rejected commit of a pool that another writer had
\* changed, and the pool still holds that writer's list
C4_Witness ==
    /\ pc = "done"
    /\ retErr = "conflict"
    /\ updates # << >>
    /\ updates[Len(updates)].pool \in touched
    /\ store[updates[Len(updates)].pool].allocations
           # ReadList(updates[Len(updates)].pool)
    /\ store[updates[Len(updates)].pool].allocations
           # updates[Len(updates)].list

\* C5: no committed Pool.Update drops a reservation that was allocated after
\* the pass listed the pods and whose owner exists when the pool is committed.
C5_NoHazardForLateStarter ==
    \A k \in 1..Len(updates) :
        updates[k].err = "nil" =>
            \A r \in Elems(updates[k].original) \ Elems(updates[k].list) :
                ~(/\ r.PodRef \in updates[k].livePods
                  /\ <<updates[k].pool, r>> \in fresh)

\* the orphaned reservations of a pool as read, by the claims' definition
DeadIn(name) == SelectSeq(ReadList(name), Dead)

\* the orphaned owners of a pool as read
DeadOwnersIn(name) == {r.PodRef : r \in Elems(DeadIn(name))}

WrittenAtMostOnce == \A name \in Pools : Cardinality(UpdatesOf(name)) <= 1

\* C6 as stated: each pool gets at most one Pool.Update in a pass, and the
\* list of that call is shorter than the list as read by the number of
\* orphaned owners of the pool.
C6_OneCommitMinusOwners ==
    /\ WrittenAtMostOnce
    /\ \A k \in 1..Len(updates) :
          Len(updates[k].list) =
              Len(ReadList(updates[k].pool))
                  - Cardinality(DeadOwnersIn(updates[k].pool))

\* C6 amended: each pool gets at most one Pool.Update in a pass, exactly one
\* if it has orphans and the pass returns without error, and the list of that
\* call is shorter than the list as read by the number of orphaned
\* reservations of the pool.
C6_OneCommitMinusOrphans ==
    /\ WrittenAtMostOnce
    /\ \A k \in 1..Len(updates) :
          Len(updates[k].list) =
              Len(ReadList(updates[k].pool)) - Len(DeadIn(updates[k].pool))
    /\ (pc = "done" /\ retErr = "nil") =>
          \A name \in Pools :
              DeadIn(name) # << >> => Cardinality(UpdatesOf(name)) = 1

\* a pass returned without error after one commit of a pool with two orphans
C6_Witness ==
    /\ pc = "done"
    /\ retErr = "nil"
    /\ \E name \in Pools :
          /\ Len(DeadIn(name)) = 2
          /\ Cardinality(UpdatesOf(name)) = 1

\* C7: Pool.Update is called only for pools in whose list, as read, the
\* detect phase could find an orphan.
C7_CleanPoolNeverWritten ==
    \A k \in 1..Len(updates) : DeadIn(updates[k].pool) # << >>

\* a pass over two non-empty pools, one of them without orphans, returned
\* after a single Pool.Update
C7_Witness ==
    /\ pc = "done"
    /\ retErr = "nil"
    /\ Len(updates) = 1
    /\ \A name \in Pools : ReadList(name) # << >>
    /\ \E name \in Pools : DeadIn(name) = << >>

\* C8: the second of two passes, with no step of another actor since the
\* first one began, returns an empty removal list without error and has
\* called Pool.Update for no pool.
C8_SecondRunIsNoOp ==
    (pc = "done" /\ quietPasses >= 2) =>
        /\ retErr = "nil"
        /\ retIPs = << >>
        /\ updates = << >>

\* the second pass returned, undisturbed, after a first pass that removed
\* reservations
C8_Witness ==
    /\ pc = "done"
    /\ quietPasses >= 2
    /\ prev.ran
    /\ prev.ret # << >>

\* the reservations of a list as read that the committed list lacks
Dropped(u) == SelectSeq(ReadList(u.pool), LAMBDA r : r \notin Elems(u.list))

RECURSIVE RemovedFrom(_)
RemovedFrom(k) ==
    IF k > Len(updates) THEN << >>
    ELSE (IF updates[k].err = "nil" THEN Dropped(updates[k]) ELSE << >>)
         \o RemovedFrom(k + 1)

\* what the committed Pool.Update calls of the pass removed from the store,
\* in the order of the calls
ActuallyRemoved == RemovedFrom(1)

C10_ConflictThenConvergence ==
    /\ (pc = "done" /\ \E k \in 1..Len(updates) : updates[k].err # "nil") =>
          /\ retErr # "nil"
          /\ retIPs = << >>
    /\ (pc = "done" /\ prev.ran /\ prev.err = "conflict" /\ quietPasses >= 1) =>
          /\ retErr = "nil"
          /\ LiveSet = {PodRefOf(p) : p \in pods}
          /\ \A name \in Pools :
                store[name].allocations =
                    SelectSeq(ReadList(name), LAMBDA r : ~Dead(r))

\* a pass returned, undisturbed, with removals after a pass that ended on a
\* rejected commit
C10_Witness ==
    /\ pc = "done"
    /\ prev.ran
    /\ prev.err = "conflict"
    /\ quietPasses >= 1
    /\ retIPs # << >>

\* the step is a Pool.Update call of the pass that returned an error
UpdateRejected ==
    /\ Len(updates') = Len(updates) + 1
    /\ updates'[Len(updates')].err # "nil"

\* C11: a Pool.Update that fails ends the pass with the error and without a
\* report, rolls nothing back (the store stays as it was, earlier commits
\* included), and once the pass has ended no further Pool.Update of that pass
\* is issued.
C11_FailedUpdateAbortsPass ==
    /\ [][UpdateRejected =>
             /\ store' = store
             /\ pc' = "done"
             /\ retErr' # "nil"
             /\ retIPs' = << >>]_vars
    /\ [][(pc = "done" /\ updates' # updates) => updates' = << >>]_vars

\* the commit of the second pool failed after the first pool was committed:
\* the pass has ended, the first pool holds its committed list and the second
\* pool was not written
C11_Witness ==
    /\ pc = "done"
    /\ retErr # "nil"
    /\ Len(updates) = 2
    /\ updates[1].err = "nil"
    /\ updates[2].err # "nil"
    /\ store[updates[1].pool].allocations = updates[1].list
    /\ store[updates[1].pool].allocations # ReadList(updates[1].pool)
    /\ store[updates[2].pool].allocations # updates[2].list

\* the number of times a reservation occurs in a list
Count(list, r) == Cardinality({i \in 1..Len(list) : list[i] = r})

\* C14: every list handed to Pool.Update holds only reservations (same
\* address and owner) of the pool's list as the pass read it, each at most
\* as often as it occurs there.
C14_NeverCreates ==
    \A k \in 1..Len(updates) :
        \A r \in Elems(updates[k].list) :
            /\ r \in Elems(ReadList(updates[k].pool))
            /\ Count(updates[k].list, r) <= Count(ReadList(updates[k].pool), r)

\* a pool was committed with a list that kept one of its two reservations
C14_Witness ==
    \E k \in 1..Len(updates) :
        /\ updates[k].err = "nil"
        /\ Len(ReadList(updates[k].pool)) = 2
        /\ Len(updates[k].list) = 1

\* C18: whatever the other actors do, every owner that ReconcileIPPools is
\* about to deallocate from an orphan group is found by matchByPodRef in the
\* pool snapshot stored in that group, the deallocations of the group end
\* without error, and no pass returns the not-found error.
C18_OrphansAlwaysFound ==
    /\ retErr # "notfound"
    /\ \A g \in 1..Len(orphanedIPs) :
          /\ orphanedIPs[g].Pool.allocations
                 = ReadList(orphanedIPs[g].Pool.name)
          /\ \A r \in Elems(orphanedIPs[g].Allocations) :
                \E i \in 1..Len(orphanedIPs[g].Pool.allocations) :
                    orphanedIPs[g].Pool.allocations[i].PodRef = r.PodRef
          /\ DeallocateAll(Allocations(orphanedIPs[g].Pool),
                           findOutPodRefsToDeallocateIPsFrom(orphanedIPs[g])).err
                 = "nil"

\* a pass ended after another actor removed, from the store, the orphaned
\* reservation of a pool between the detect phase and the pool's Update
C18_Witness ==
    /\ pc = "done"
    /\ updates # << >>
    /\ \E k \in 1..Len(updates) :
          /\ updates[k].pool \in touched
          /\ updates[k].err = "conflict"
          /\ Len(updates[k].list) < Len(updates[k].original)

\* C16: a reservation whose owner was captured in the live set of a pass
\* and is gone by the time its pool is committed is kept by that pass's
\* Pool.Update and is not reported; and a pass that then starts and returns
\* without error has removed and reported every reservation of the owners
\* that were gone when the previous pass had ended.
C16_TerminatedReclaimedNextPass ==
    /\ \A k \in 1..Len(updates) :
          \A r \in Elems(ReadList(updates[k].pool)) :
              (r.PodRef \in LiveSet /\ r.PodRef \notin updates[k].livePods)
                  => r \in Elems(updates[k].list)
    /\ \A r \in Elems(totalCleanedUpIps) \cup Elems(retIPs) :
          r.PodRef \notin LiveSet
    /\ (pc = "done" /\ retErr = "nil" /\ prev.ran) =>
          \A name \in Pools :
              /\ \A r \in Elems(Committed(name)) : r.PodRef \notin prev.gone
              /\ \A r \in Elems(ReadList(name)) :
                    r.PodRef \in prev.gone => r \in Elems(retIPs)

\* a pod of the previous pass's live set went away during that pass, and the
\* pass that followed found its reservation still in a pool and removed it
C16_Witness ==
    /\ pc = "done"
    /\ retErr = "nil"
    /\ prev.ran
    /\ prev.err = "nil"
    /\ \E name \in Pools :
          \E r \in Elems(ReadList(name)) :
              /\ r.PodRef \in prev.gone
              /\ r \in Elems(retIPs)
              /\ r \notin Elems(Committed(name))

\* ----------------------------------------------------------------- C12
\* C12: when ListPods or ListIPPools fails, NewReconcileLooper returns the
\* error and no looper: nothing is detected, ReconcileIPPools is not called
\* and no Pool.Update is issued in that pass; the store is as it was.
C12_ListFailureIsFatal ==
    /\ [](retErr \in {"listpods", "listpools"} =>
            /\ pc = "failed"
            /\ livePodRefs = << >>
            /\ orphanedIPs = << >>
            /\ updates = << >>
            /\ calls = 0)
    /\ [][pc' = "failed" => store' = store]_vars
    /\ [][pc = "failed" => (pc' # "failed" => pc' = "detect")]_vars

C12_Witness ==
    /\ pc = "failed"
    /\ retErr = "listpools"
    /\ \E name \in Pools : \E r \in Elems(store[name].allocations) :
          r.PodRef # "" /\ r.PodRef \notin {PodRefOf(p) : p \in pods}

\* ----------------------------------------------------------------- C17
\* C17: once rl.ctx is cancelled during ReconcileIPPools, no further
\* Pool.Update call is issued.
C17_NoUpdateAfterCancel ==
    \A k \in 1..Len(updates) : ~updates[k].ctxDone

\* ----------------------------------------------------------------- C19
\* C19: ReconcileIPPools leaves rl.livePodRefs and rl.orphanedIPs as
\* NewReconcileLooper built them, so a second call on the same looper acts on
\* the groups and the pool snapshots of the first detect: it submits lists
\* derived from the snapshot read before the first call, and on a pool the
\* first call committed it is rejected.
C19_LooperKeptAcrossCalls ==
    /\ [][(calls >= 1 /\ calls' >= 1) =>
            (livePodRefs' = livePodRefs /\ orphanedIPs' = orphanedIPs)]_vars
    /\ [](\A k \in 1..Len(updates) :
            updates[k].call >= 2 =>
                /\ updates[k].original = ReadList(updates[k].pool)
                /\ (\E j \in 1..(k - 1) :
                        /\ updates[j].pool = updates[k].pool
                        /\ updates[j].err = "nil")
                        => updates[k].err = "conflict")

C19_Witness ==
    /\ calls = 2
    /\ pc = "done"
    /\ retErr = "conflict"
    /\ prev.err = "nil"
    /\ prev.ret # << >>
    /\ \E k \in 1..Len(updates) :
          updates[k].call = 2 /\ updates[k].err = "conflict"

\* ----------------------------------------------------------------- C13
\* the first position of owner in list
FirstOf(list, owner) ==
    CHOOSE i \in 1..Len(list) :
        /\ list[i].PodRef = owner
        /\ \A j \in 1..(i - 1) : list[j].PodRef # owner

ScenarioAList ==
    <<[IP |-> 1, PodRef |-> ScenRefs[1]],
      [IP |-> 2, PodRef |-> ScenRefs[2]],
      [IP |-> 3, PodRef |-> ScenRefs[3]]>>

\* C13: applied with matchByPodRef to a list that holds the owner, the
\* deallocation primitive returns the list without the first reservation of
\* that owner, the others unchanged and in their order; for the pool
\* [{10.0.0.1,podA},{10.0.0.2,podB},{10.0.0.3,podC}] and the live set
\* {podA,podC} the committed list is [{10.0.0.1,podA},{10.0.0.3,podC}] and the
\* report is [{10.0.0.2,podB}].
C13_FirstMatchRemoved ==
    /\ \A name \in Pools : \A owner \in ScenOwners :
          LET l == store[name].allocations
              res == IterateForDeallocation(l, owner)
          IN  (\E i \in 1..Len(l) : l[i].PodRef = owner) =>
                  /\ res.err = "nil"
                  /\ Len(res.list) = Len(l) - 1
                  /\ \A k \in 1..Len(res.list) :
                        res.list[k] =
                            IF k < FirstOf(l, owner) THEN l[k] ELSE l[k + 1]
    /\ (/\ ReadList(PoolNames[1]) = ScenarioAList
        /\ LiveSet = {ScenRefs[1], ScenRefs[3]}
        /\ Len(orphanedIPs[1].Allocations) = 1
        /\ pc = "done") =>
            /\ retErr = "nil"
            /\ store[PoolNames[1]].allocations =
                   <<[IP |-> 1, PodRef |-> ScenRefs[1]],
                     [IP |-> 3, PodRef |-> ScenRefs[3]]>>
            /\ retIPs = <<[IP |-> 2, PodRef |-> ScenRefs[2]]>>

C13_Witness ==
    /\ pc = "done"
    /\ ReadList(PoolNames[1]) = ScenarioAList
    /\ LiveSet = {ScenRefs[1], ScenRefs[3]}
    /\ Len(store[PoolNames[1]].allocations) = 2
    /\ Len(retIPs) = 1

\* ----------------------------------------------------------------- C15
\* the orphan group names an owner more often than the pool's list holds it
Missing(group) ==
    \E owner \in ScenOwners :
        Cardinality({i \in 1..Len(group.Allocations) :
                        group.Allocations[i].PodRef = owner})
            > Cardinality({i \in 1..Len(group.Pool.allocations) :
                              group.Pool.allocations[i].PodRef = owner})

\* C15: when the deallocation primitive finds no reservation of an owner the
\* orphan group names, ReconcileIPPools returns that error and no report, and
\* no Pool.Update is issued for the pool.
C15_NotFoundAbortsPool ==
    \A g \in 1..Len(orphanedIPs) :
        Missing(orphanedIPs[g]) =>
            /\ UpdatesOf(orphanedIPs[g].Pool.name) = {}
            /\ store[orphanedIPs[g].Pool.name].allocations
                   = orphanedIPs[g].Pool.allocations
            /\ loopIdx <= g
            /\ pc = "done" => (retErr = "notfound" /\ retIPs = << >>)

C15_Witness ==
    /\ pc = "done"
    /\ retErr = "notfound"
    /\ \E g \in 1..Len(orphanedIPs) :
          /\ Missing(orphanedIPs[g])
          /\ Len(orphanedIPs[g].Allocations) >= 2

====
